---- MODULE Spec2Model ----
(***************************************************************************)
(* A model of the news sentiment analyzer: the Flask application of        *)
(* src/main.py (module initialisation, GET /get_news with analyze_news,    *)
(* POST /chat with get_chat_response), the sentiment classifier            *)
(* get_sentiment_label, and the interactive session of src/gemini_chat.py. *)
(*                                                                         *)
(* Compound scores are floats rounded to four decimals; they are modelled  *)
(* as integers in units of 1/10000, so 0.05 is 500 and 1.0 is 10000.       *)
(* Python's None is the string NoneVal, which is no string the program     *)
(* handles otherwise.  A Python dict is a TLA+ record, and a key the dict  *)
(* lacks is a field the record lacks.                                      *)
(***************************************************************************)
EXTENDS Integers, Sequences, FiniteSets, TLC

VARIABLES
    pc,                 \* main.py: "boot", "idle", "loop" (inside analyze_news), "responded"
    newsKey,            \* os.getenv('NEWS_API_KEY') is set
    geminiKey,          \* os.getenv('GEMINI_API_KEY') is set
    newsapi,            \* the global newsapi: "bound" or "unbound"
    model,              \* the global model: "bound" or "unbound"
    request,            \* the HTTP request being served (or served last)
    search_query,       \* analyze_news: the q passed to newsapi.get_everything
    articles,           \* analyze_news: articles['articles'], the adapter's result
    idx,                \* analyze_news: position of the for loop (1-based)
    processed_articles, \* analyze_news: the list being built
    fetched,            \* history: the adapter call of this request: "none", "raise", "ok"
    scored,             \* history: the scorer's outcome for each raw article visited
    modelCalls,         \* history: prompts passed to model.generate_content for this request
    modelOutcome,       \* history: what the generative model did for this request
    response,           \* the HTTP response: [status, body], or NoResponse
    score,              \* classifier harness: the compound score given
    label,              \* classifier harness: get_sentiment_label(score), or "unset"
    cpc,                \* gemini_chat.py main: "start", "prompt", "thinking", "done", "exited"
    chat_history,       \* gemini_chat.py main: chat_history
    user_input,         \* gemini_chat.py main: user_input
    inputs              \* history: every input read at the prompt, in order

appVars == <<pc, newsKey, geminiKey, newsapi, model, request, search_query, articles,
             idx, processed_articles, fetched, scored, modelCalls, modelOutcome, response>>
labelVars == <<score, label>>
cliVars == <<cpc, chat_history, user_input, inputs>>
vars == <<appVars, labelVars, cliVars>>

\* ------------------------------------------------------------------ bounds

\* The adapter returns at most this many raw articles (below page_size).
MaxArticles == 2
\* Compound scores range over -MaxScore..MaxScore (1.0 in units of 1/10000).
MaxScore == 10000
\* The interactive session reads at most this many inputs.
MaxInputs == 3

\* ------------------------------------------------------------------ values

NoneVal == "<None>"
NoResponse == [status |-> 0, body |-> <<>>]

\* page_size=10 in the call to newsapi.get_everything
PageSize == 10

Min(a, b) == IF a <= b THEN a ELSE b

\* ------------------------------------------------------ topic resolution

DefaultTopic == "technology"

TOPICS ==
    [technology |-> "technology OR AI OR artificial intelligence OR software OR hardware",
     business |-> "business OR economy OR market OR finance OR stocks",
     politics |-> "politics OR government OR election OR policy",
     sports |-> "sports OR football OR basketball OR soccer OR tennis",
     entertainment |-> "entertainment OR movies OR music OR celebrities",
     science |-> "science OR research OR discovery OR space OR medicine",
     health |-> "health OR medical OR healthcare OR wellness",
     environment |-> "environment OR climate OR nature OR conservation"]

\* dict.get(key, default)
DictGet(d, key, default) == IF key \in DOMAIN d THEN d[key] ELSE default

\* A mutant of ResolveTopic: no fallback, an unknown key yields None.
ResolveTopicNoDefault(topic) == DictGet(TOPICS, topic, NoneVal)

\* search_query = TOPICS.get(topic, TOPICS['technology'])
ResolveTopic(topic) == DictGet(TOPICS, topic, TOPICS[DefaultTopic])

\* topic = request.args.get('topic', 'technology')
RequestTopic(args) == DictGet(args, "topic", DefaultTopic)

\* ----------------------------------------------------- sentiment classifier

PositiveThreshold == 500
NegativeThreshold == -500

\* A mutant of get_sentiment_label: strict inequalities.
get_sentiment_label_strict(compound_score) ==
    IF compound_score > PositiveThreshold THEN "Positive"
    ELSE IF compound_score < NegativeThreshold THEN "Negative"
    ELSE "Neutral"

get_sentiment_label(compound_score) ==
    IF compound_score >= PositiveThreshold THEN "Positive"
    ELSE IF compound_score <= NegativeThreshold THEN "Negative"
    ELSE "Neutral"

\* ------------------------------------------------------ results of calls

\* A call either returns a value or raises an Exception.
Ret(v) == [raised |-> FALSE, value |-> v]
Raised == [raised |-> TRUE]

\* -------------------------------------------------- module initialisation

\* A mutant of ModuleInit: a missing credential ends the process.
ModuleInitExitOnMissingKey(nk, gk, newsRaises, genaiRaises) ==
    [pc |-> IF nk /\ gk THEN "idle" ELSE "exited",
     newsapi |-> IF newsRaises THEN "unbound" ELSE "bound",
     model |-> IF genaiRaises THEN "unbound" ELSE "bound"]

\* The two try blocks at import: a constructor that raises leaves its global
\* unbound, a missing key is logged, and the module always finishes loading.
ModuleInit(nk, gk, newsRaises, genaiRaises) ==
    [pc |-> "idle",
     newsapi |-> IF newsRaises THEN "unbound" ELSE "bound",
     model |-> IF genaiRaises THEN "unbound" ELSE "bound"]

\* ------------------------------------------------------------ analyze_news

\* Raw articles the adapter can deliver: one with a description, one without
\* the field, one whose field is null.
RawPool ==
    {[title |-> "Great breakthrough in AI", source |-> [name |-> "Wired"],
      url |-> "https://news.example/1", description |-> "A new model was announced."],
     [title |-> "Stocks crash amid fears", source |-> [name |-> "Reuters"],
      url |-> "https://news.example/2"],
     [title |-> "Routine update released", source |-> [name |-> "BBC"],
      url |-> "https://news.example/3", description |-> NoneVal]}

\* Compound scores the scorer can yield (0.6, -0.7, 0.0 and both sides of a threshold).
ScoreSamples == {-7000, -500, 0, 499, 6000}

RawLists == UNION {[1..n -> RawPool] : n \in 0..Min(MaxArticles, PageSize)}

\* The client can reach the service: constructed, and with a key to present.
NewsClientUsable == newsapi = "bound" /\ newsKey

\* The body of the for loop after scoring: the dict appended for one article.
Enrich(article, compound_score) ==
    [title |-> article["title"],
     source |-> article["source"]["name"],
     url |-> article["url"],
     description |-> DictGet(article, "description", ""),
     sentiment |-> get_sentiment_label(compound_score),
     compound_score |-> compound_score]

\* A mutant of AppendProcessed: the new article goes to the head of the list.
PrependProcessed(list, item) == <<item>> \o list

\* processed_articles.append({...})
AppendProcessed(list, item) == Append(list, item)

\* A mutant of analyze_news_except: the exception goes on to the caller.
analyze_news_reraise == Raised

\* except Exception as e: ... return []
analyze_news_except == Ret(<<>>)

\* get_news, after analyze_news(topic): jsonify the articles, or answer 500.
get_news_response(result) ==
    IF result.raised
    THEN [status |-> 500, body |-> [error |-> "Internal server error"]]
    ELSE [status |-> 200, body |-> [articles |-> result.value]]

\* ------------------------------------------------------- get_chat_response

ApologyInvalid ==
    "I apologize, but I couldn't generate a proper response. Please try rephrasing your question."
ApologyError ==
    "I apologize, but I'm having trouble processing your request at the moment. Please try again."

\* Texts the generative model can produce.
Texts == {"Sentiment analysis scores the tone of a headline.", "It looks positive overall."}

\* What model.generate_content(...) and the reading of its result can do:
\*   "call_raises"  the call raises (network, quota, authorization)
\*   "none"         it returns a falsy response
\*   "no_text"      the response has no attribute text
\*   "text_raises"  reading response.text raises ValueError (a blocked response)
\*   "text"         response.text is a string
ModelKinds == {"call_raises", "none", "no_text", "text_raises", "text"}

ModelUsable == model = "bound" /\ geminiKey

\* prompt = f"""...User Question: {message}...Your response:"""
Prompt(message) ==
    <<"You are a helpful news assistant that can analyze and discuss news articles.",
      "User Question: ", message, "Your response:">>

\* A mutant of get_chat_response_except: the exception goes on to the caller.
get_chat_response_reraise == Raised

\* except Exception as e: ... return "I apologize, but I'm having trouble ..."
get_chat_response_except == Ret(ApologyError)

\* get_chat_response(message), given what the model does.  An unbound global
\* model is a NameError inside the try block, before any call is made.
get_chat_response(message, kind, text) ==
    IF model = "unbound" \/ kind \in {"call_raises", "text_raises"}
    THEN get_chat_response_except
    ELSE IF kind = "text" THEN Ret(text)
    ELSE Ret(ApologyInvalid)

\* ---------------------------------------------------------------- /chat

EmptyDict == [k \in {} |-> NoneVal]

\* Request bodies of POST /chat:
\*   "nojson"  request.json raises (no JSON content type, or unparsable JSON)
\*   "null"    the JSON document null: request.json is None
\*   "array"   a JSON array: request.json is a list
\*   "object"  a JSON object, obj
ChatBodies ==
    {[kind |-> "nojson", obj |-> EmptyDict],
     [kind |-> "null", obj |-> EmptyDict],
     [kind |-> "array", obj |-> EmptyDict],
     [kind |-> "object", obj |-> EmptyDict],
     [kind |-> "object", obj |-> [text |-> "hello"]],
     [kind |-> "object", obj |-> [message |-> NoneVal]],
     [kind |-> "object", obj |-> [message |-> ""]],
     [kind |-> "object", obj |-> [message |-> "What is sentiment analysis?"]],
     [kind |-> "object", obj |-> [message |-> "Is the news good today?"]]}

\* not message
Falsy(message) == message \in {NoneVal, ""}

InternalServerError == [status |-> 500, body |-> [error |-> "Internal server error"]]

\* chat(): the response to a body, given what the model does.
chat_response(body, kind, text) ==
    IF body.kind # "object"
    THEN InternalServerError          \* request.json or data.get raises
    ELSE LET message == DictGet(body.obj, "message", NoneVal) IN
         IF Falsy(message)
         THEN [status |-> 400, body |-> [error |-> "Missing message"]]
         ELSE LET r == get_chat_response(message, kind, text) IN
              IF r.raised THEN InternalServerError
              ELSE [status |-> 200, body |-> [response |-> r.value]]

\* chat(): the prompts that reach model.generate_content.
chat_model_calls(body) ==
    IF body.kind = "object" /\ ~Falsy(DictGet(body.obj, "message", NoneVal))
       /\ model = "bound"
    THEN <<Prompt(body.obj["message"])>>
    ELSE <<>>

\* ------------------------------------------------------- the application

TopicParams == (DOMAIN TOPICS) \cup {"cooking", "Technology", ""}

\* request.args of GET /get_news: with or without the topic parameter
NewsArgs == {EmptyDict} \cup {[topic |-> t] : t \in TopicParams}

AppInit ==
    /\ pc = "boot"
    /\ newsKey = FALSE /\ geminiKey = FALSE
    /\ newsapi = "unbound" /\ model = "unbound"
    /\ request = [endpoint |-> "none"]
    /\ search_query = NoneVal
    /\ articles = <<>> /\ idx = 0 /\ processed_articles = <<>>
    /\ fetched = "none" /\ scored = <<>>
    /\ modelCalls = <<>> /\ modelOutcome = "none"
    /\ response = NoResponse

\* Import of main.py: load_dotenv(), the two client initialisations, app.run.
Startup ==
    /\ pc = "boot"
    /\ \E nk \in BOOLEAN, gk \in BOOLEAN, newsRaises \in BOOLEAN, genaiRaises \in BOOLEAN :
         LET m == ModuleInit(nk, gk, newsRaises, genaiRaises) IN
         /\ newsKey' = nk /\ geminiKey' = gk
         /\ pc' = m.pc /\ newsapi' = m.newsapi /\ model' = m.model
    /\ UNCHANGED <<labelVars, cliVars, request, search_query, articles, idx, processed_articles, fetched,
                   scored, modelCalls, modelOutcome, response>>

\* The server waits for a request.
Serving == pc = "idle"

\* GET /get_news up to the adapter call, which raises: analyze_news returns
\* through its except clause and get_news answers.
GetNewsAdapterRaises ==
    /\ Serving
    /\ \E args \in NewsArgs :
         /\ request' = [endpoint |-> "get_news", args |-> args]
         /\ search_query' = ResolveTopic(RequestTopic(args))
    /\ articles' = <<>> /\ idx' = 0 /\ processed_articles' = <<>>
    /\ fetched' = "raise" /\ scored' = <<>>
    /\ modelCalls' = <<>> /\ modelOutcome' = "none"
    /\ response' = get_news_response(analyze_news_except)
    /\ pc' = "responded"
    /\ UNCHANGED <<labelVars, cliVars, newsKey, geminiKey, newsapi, model>>

\* GET /get_news up to the adapter call, which returns raw articles.  A client
\* that was never constructed, or has no key, cannot return any.
GetNewsAdapterReturns ==
    /\ Serving
    /\ NewsClientUsable
    /\ \E args \in NewsArgs :
         /\ request' = [endpoint |-> "get_news", args |-> args]
         /\ search_query' = ResolveTopic(RequestTopic(args))
    /\ \E l \in RawLists : articles' = l
    /\ idx' = 1 /\ processed_articles' = <<>>
    /\ fetched' = "ok" /\ scored' = <<>>
    /\ modelCalls' = <<>> /\ modelOutcome' = "none"
    /\ response' = NoResponse
    /\ pc' = "loop"
    /\ UNCHANGED <<labelVars, cliVars, newsKey, geminiKey, newsapi, model>>

\* One pass of the for loop: the title is scored and the article appended.
ProcessArticle ==
    /\ pc = "loop" /\ idx <= Len(articles)
    /\ \E s \in ScoreSamples :
         /\ processed_articles' = AppendProcessed(processed_articles, Enrich(articles[idx], s))
         /\ scored' = Append(scored, Ret(s))
    /\ idx' = idx + 1
    /\ UNCHANGED <<labelVars, cliVars, pc, newsKey, geminiKey, newsapi, model, request, search_query, articles,
                   fetched, modelCalls, modelOutcome, response>>

\* One pass of the for loop in which analyzer.polarity_scores raises: the
\* exception leaves the loop, analyze_news returns through its except clause.
ProcessArticleRaises ==
    /\ pc = "loop" /\ idx <= Len(articles)
    /\ scored' = Append(scored, Raised)
    /\ response' = get_news_response(analyze_news_except)
    /\ pc' = "responded"
    /\ UNCHANGED <<labelVars, cliVars, newsKey, geminiKey, newsapi, model, request, search_query, articles, idx,
                   processed_articles, fetched, modelCalls, modelOutcome>>

\* The loop is over: return processed_articles, and get_news answers.
ReturnNews ==
    /\ pc = "loop" /\ idx > Len(articles)
    /\ response' = get_news_response(Ret(processed_articles))
    /\ pc' = "responded"
    /\ UNCHANGED <<labelVars, cliVars, newsKey, geminiKey, newsapi, model, request, search_query, articles, idx,
                   processed_articles, fetched, scored, modelCalls, modelOutcome>>

\* POST /chat, the whole handler.  A model that was never constructed, or has
\* no key, produces no text.
Chat ==
    /\ Serving
    /\ \E body \in ChatBodies, kind \in ModelKinds, text \in Texts :
         /\ ModelUsable \/ kind = "call_raises"
         /\ request' = [endpoint |-> "chat", body |-> body]
         /\ response' = chat_response(body, kind, text)
         /\ modelCalls' = chat_model_calls(body)
         /\ modelOutcome' = IF chat_model_calls(body) = <<>> THEN "none"
                            ELSE IF kind = "text" THEN text ELSE kind
    /\ search_query' = NoneVal
    /\ articles' = <<>> /\ idx' = 0 /\ processed_articles' = <<>>
    /\ fetched' = "none" /\ scored' = <<>>
    /\ pc' = "responded"
    /\ UNCHANGED <<labelVars, cliVars, newsKey, geminiKey, newsapi, model>>

\* The response has been sent: the handler's locals are gone and the
\* server (app.run) waits for the next request.
ResponseSent ==
    /\ pc = "responded"
    /\ pc' = "idle"
    /\ request' = [endpoint |-> "none"]
    /\ search_query' = NoneVal
    /\ articles' = <<>> /\ idx' = 0 /\ processed_articles' = <<>>
    /\ fetched' = "none" /\ scored' = <<>>
    /\ modelCalls' = <<>> /\ modelOutcome' = "none"
    /\ response' = NoResponse
    /\ UNCHANGED <<labelVars, cliVars, newsKey, geminiKey, newsapi, model>>

Next ==
    \/ Startup
    \/ GetNewsAdapterRaises
    \/ GetNewsAdapterReturns
    \/ ProcessArticle
    \/ ProcessArticleRaises
    \/ ReturnNews
    \/ Chat
    \/ ResponseSent

LabelIdle == score = 0 /\ label = "unset"
CliIdle == cpc = "start" /\ chat_history = <<>> /\ user_input = <<>> /\ inputs = <<>>

Init == AppInit /\ LabelIdle /\ CliIdle
Spec == Init /\ [][Next]_vars

\* ------------------------------------------------ the classifier, alone

\* Every compound score the scorer can yield, in units of 1/10000.
Scores == (0 - MaxScore)..MaxScore

LabelInit == AppInit /\ CliIdle /\ score \in Scores /\ label = "unset"

\* sentiment_label = get_sentiment_label(compound_score)
Classify ==
    /\ label = "unset"
    /\ label' = get_sentiment_label(score)
    /\ UNCHANGED <<appVars, cliVars, score>>

LabelNext ==
    \/ Classify

SpecLabel == LabelInit /\ [][LabelNext]_vars

\* ------------------------------------- gemini_chat.py: the interactive session

\* A string typed at the prompt is the sequence of its characters.
UserInputs ==
    {<<"e", "x", "i", "t">>, <<"E", "X", "I", "T">>, <<"q", "u", "i", "t">>,
     <<"Q", "u", "i", "t">>, <<"e", "x", "i", "t", "s">>, <<"h", "i">>, <<>>}

\* str.lower() on one character of the alphabet above
LowerChar(c) ==
    CASE c = "E" -> "e" [] c = "X" -> "x" [] c = "I" -> "i" [] c = "T" -> "t"
      [] c = "Q" -> "q" [] OTHER -> c

\* A mutant of Lower: the input is compared as typed.
LowerIdentity(str) == str

\* user_input.lower()
Lower(str) == [i \in 1..Len(str) |-> LowerChar(str[i])]

\* user_input.lower() in ['exit', 'quit']
IsExitCommand(str) == Lower(str) \in {<<"e", "x", "i", "t">>, <<"q", "u", "i", "t">>}

\* What the model does for one message of the session.
CliModelKinds == {"call_raises", "text_raises", "text"}

\* gemini_chat.get_chat_response(model, message): response.text, or "Error: ..."
gemini_chat_get_chat_response(kind, text) ==
    IF kind = "text" THEN Ret(text)
    ELSE IF kind = "call_raises" THEN Ret("Error: 503 The service is currently unavailable.")
    ELSE Ret("Error: The response was blocked.")

CliInit ==
    /\ AppInit /\ LabelIdle
    /\ cpc = "start" /\ chat_history = <<>> /\ user_input = <<>> /\ inputs = <<>>

\* initialize_gemini(): sys.exit(1) without a key or when the model cannot be
\* created, else the session reaches its first prompt.
InitializeGemini ==
    /\ cpc = "start"
    /\ \E key \in BOOLEAN, raises \in BOOLEAN :
         cpc' = IF key /\ ~raises THEN "prompt" ELSE "exited"
    /\ UNCHANGED <<appVars, labelVars, chat_history, user_input, inputs>>

\* Prompt.ask, the exit check, and the append of the user turn.
ReadInput ==
    /\ cpc = "prompt" /\ Len(inputs) < MaxInputs
    /\ \E u \in UserInputs :
         /\ user_input' = u
         /\ inputs' = Append(inputs, u)
         /\ IF IsExitCommand(u)
            THEN cpc' = "done" /\ UNCHANGED chat_history
            ELSE cpc' = "thinking" /\ chat_history' = Append(chat_history, <<"user", u>>)
    /\ UNCHANGED <<appVars, labelVars>>

\* get_chat_response(model, user_input) and the append of the assistant turn.
\* An exception that left get_chat_response would leave main as well.
Respond ==
    /\ cpc = "thinking"
    /\ \E kind \in CliModelKinds, text \in Texts :
         LET r == gemini_chat_get_chat_response(kind, text) IN
         IF r.raised
         THEN cpc' = "exited" /\ UNCHANGED chat_history
         ELSE cpc' = "prompt" /\ chat_history' = Append(chat_history, <<"assistant", r.value>>)
    /\ UNCHANGED <<appVars, labelVars, user_input, inputs>>

CliNext ==
    \/ InitializeGemini
    \/ ReadInput
    \/ Respond

SpecCli == CliInit /\ [][CliNext]_vars

\* ================================================================ claims

NewsResponded == pc = "responded" /\ request.endpoint = "get_news"
ChatResponded == pc = "responded" /\ request.endpoint = "chat"

\* The raw article's description is missing: the field is absent or null.
DescriptionMissing(article) ==
    "description" \notin DOMAIN article \/ article["description"] = NoneVal

\* The request body carries a message the handler accepts: a JSON object
\* whose message field is present, not null and not empty.
HasMessage(body) ==
    /\ body.kind = "object"
    /\ "message" \in DOMAIN body.obj
    /\ body.obj["message"] \notin {NoneVal, ""}

\* C1: when the scoring of one article's title raises, only that article is
\* left out: every raw article that was scored successfully is in the
\* returned list, and the list is no longer than the raw list.
C1_OnlyFailedArticleSkipped ==
    (NewsResponded /\ fetched = "ok") =>
        /\ response.status = 200
        /\ Len(response.body.articles) <= Len(articles)
        /\ \A i \in 1..Len(scored) :
             ~scored[i].raised =>
                \E j \in 1..Len(response.body.articles) :
                    /\ response.body.articles[j].title = articles[i].title
                    /\ response.body.articles[j].url = articles[i].url

\* C2: the label is Positive iff the score is at least 0.05, Negative iff it
\* is at most -0.05, and Neutral otherwise; exactly one label for every score.
C2_LabelThresholds ==
    label # "unset" =>
        /\ label \in {"Positive", "Negative", "Neutral"}
        /\ label = "Positive" <=> score >= 500
        /\ label = "Negative" <=> score <= -500
        /\ label = "Neutral" <=> (score > -500 /\ score < 500)

C2_Witness == score = 500 /\ label = "Positive"

\* C3: when the adapter call fails (also for a client that was never
\* constructed), GET /get_news answers 200 with {"articles": []}.
C3_AdapterFailureYieldsEmpty ==
    (NewsResponded /\ fetched = "raise") =>
        response = [status |-> 200, body |-> [articles |-> <<>>]]

C3_Witness ==
    NewsResponded /\ fetched = "raise" /\ newsapi = "unbound" /\ response.status = 200

\* C4: when every title is scored, the output has one enriched article per
\* raw article, in the adapter's order, with the raw title, source name and
\* URL, the scorer's value unchanged, and the label of that value.
C4_AllScoredKeepsOrder ==
    (/\ NewsResponded /\ fetched = "ok"
     /\ Len(scored) = Len(articles)
     /\ \A i \in 1..Len(scored) : ~scored[i].raised) =>
        /\ response.status = 200
        /\ Len(response.body.articles) = Len(articles)
        /\ \A i \in 1..Len(articles) :
             LET out == response.body.articles[i] IN
             /\ out.title = articles[i].title
             /\ out.source = articles[i].source.name
             /\ out.url = articles[i].url
             /\ out.compound_score = scored[i].value
             /\ out.sentiment = get_sentiment_label(out.compound_score)

C4_Witness ==
    /\ NewsResponded /\ fetched = "ok"
    /\ Len(articles) = 2 /\ articles[1] # articles[2]
    /\ Len(scored) = 2 /\ ~scored[1].raised /\ ~scored[2].raised
    /\ Len(response.body.articles) = 2

\* C5: no returned article has an absent or null description, and a raw
\* article whose description is missing (absent or null) gets ''.
C5_MissingDescriptionIsEmpty ==
    (NewsResponded /\ response.status = 200) =>
        \A j \in 1..Len(response.body.articles) :
            /\ "description" \in DOMAIN response.body.articles[j]
            /\ response.body.articles[j].description # NoneVal
            /\ DescriptionMissing(articles[j]) =>
                   response.body.articles[j].description = ""

\* C6: the search expression is the key's own for a key of TOPICS, and that
\* of 'technology' for any other key and for a request without the
\* parameter; the request never fails because of the key.
C6_TopicResolutionTotal ==
    request.endpoint = "get_news" =>
        /\ search_query =
             IF "topic" \in DOMAIN request.args /\ request.args.topic \in DOMAIN TOPICS
             THEN TOPICS[request.args.topic]
             ELSE TOPICS["technology"]
        /\ pc = "responded" => response.status = 200

C6_Witness ==
    /\ NewsResponded
    /\ "topic" \in DOMAIN request.args /\ request.args.topic = "cooking"
    /\ search_query = TOPICS["technology"]

\* C7: POST /chat answers 400 {"error": "Missing message"} whenever the
\* message field is absent from the request body, without calling the model.
C7_AbsentMessageIs400 ==
    (ChatResponded
     /\ (request.body.kind # "object" \/ "message" \notin DOMAIN request.body.obj)) =>
        /\ response = [status |-> 400, body |-> [error |-> "Missing message"]]
        /\ modelCalls = <<>>

\* C8, as stated: a request that depends on a missing credential is answered
\* with status 500.
C8_MissingCredentialIs500 ==
    (\/ NewsResponded /\ ~NewsClientUsable
     \/ ChatResponded /\ ~ModelUsable) =>
        response.status = 500

\* C8, amended: a missing credential never ends the process and is never
\* surfaced as a 500: GET /get_news without a usable news client answers 200
\* with no articles, POST /chat with a message and without a usable model
\* answers 200 with the apology, and every 500 is a request body that is no
\* JSON object.
C8_MissingCredentialDegrades ==
    /\ pc # "exited"
    /\ (NewsResponded /\ ~NewsClientUsable) =>
           response = [status |-> 200, body |-> [articles |-> <<>>]]
    /\ (ChatResponded /\ ~ModelUsable /\ HasMessage(request.body)) =>
           response = [status |-> 200, body |-> [response |-> ApologyError]]
    /\ (pc = "responded" /\ response.status = 500) =>
           (request.endpoint = "chat" /\ request.body.kind # "object")

C8_Witness ==
    /\ ChatResponded /\ ~geminiKey /\ model = "bound" /\ HasMessage(request.body)
    /\ response.status = 200

ExitInputs ==
    {<<"e", "x", "i", "t">>, <<"E", "X", "I", "T">>, <<"q", "u", "i", "t">>,
     <<"Q", "u", "i", "t">>}

\* C10: the history alternates user and assistant turns, starting with a
\* user turn; at every prompt its length is twice the number of non-exit
\* inputs, every user turn is followed by one assistant turn also when the
\* model call fails, and 'exit' or 'quit' in any letter case ends the session
\* without being appended.
C10_HistoryAlternates ==
    /\ cpc # "exited" \/ inputs = <<>>
    /\ \A i \in 1..Len(chat_history) :
         chat_history[i][1] = IF i % 2 = 1 THEN "user" ELSE "assistant"
    /\ \A i \in 1..Len(chat_history) :
         i % 2 = 1 => chat_history[i][2] = inputs[(i + 1) \div 2]
    /\ \A i \in 1..Len(inputs) :
         inputs[i] \in ExitInputs => (i = Len(inputs) /\ cpc = "done")
    /\ cpc = "prompt" => Len(chat_history) = 2 * Len(inputs)
    /\ cpc = "thinking" => Len(chat_history) = 2 * Len(inputs) - 1
    /\ cpc = "done" =>
          /\ inputs # <<>> /\ inputs[Len(inputs)] \in ExitInputs
          /\ Len(chat_history) = 2 * (Len(inputs) - 1)

C10_Witness ==
    /\ cpc = "done" /\ Len(inputs) = 3 /\ inputs[3] = <<"Q", "u", "i", "t">>
    /\ Len(chat_history) = 4
    /\ chat_history[2][2] = "Error: 503 The service is currently unavailable."

====
